---- MODULE Spec2Model ----
(***************************************************************************)
(* State-machine model of server.js: an Express application over one       *)
(* sqlite3 connection.  The model keeps                                     *)
(*   - the database file (shared by every server process that opens it),   *)
(*   - per server process, the sqlite3 connection: whether it is open, the  *)
(*     queue of statements the driver holds back, and the statements that   *)
(*     are on the driver's thread pool (each one first prepared, then run), *)
(*   - the HTTP requests received and the responses sent.                   *)
(* Text values are tuples of characters, so that first_name[0] is an        *)
(* indexing operation and not an identity.                                  *)
(***************************************************************************)
EXTENDS Integers, Sequences, FiniteSets, TLC

VARIABLES
    store,   \* the database file academia.db
    conn,    \* conn[i]: the sqlite3 connection `db` of server process i
    reqs,    \* the HTTP requests received so far, with their responses
    sent,    \* the last HTTP response written
    faults,  \* number of storage failures injected so far
    nreq     \* number of requests the clients of a bounded run have sent

vars == <<store, conn, reqs, sent, faults, nreq>>

----------------------------------------------------------------------------
(* Bounds *)

MaxReq == 1        \* requests sent to a server that may be starting up (Spec)
MaxCreations == 1  \* rows created through the API (SpecRestart)
MaxRows == 3       \* rows of the students table, and of the faculty table
MaxRuns == 2       \* process starts per server process
MaxFaults == 1     \* injected storage failures per behaviour
MaxStudents == 7   \* rows of the students table (SpecRecent)

----------------------------------------------------------------------------
(* Values *)

NULL_ID == 0                 \* SQL NULL in an INTEGER column (row ids start at 1)
NULL_TEXT == <<"NULL">>      \* SQL NULL in a TEXT column (no text is this tuple)
LIMIT == 5

Tables == {"departments", "faculty", "students", "courses", "schedule"}

colors == <<"blue", "amber", "rose", "cyan">>

EmptyStore ==
    [schema |-> {}, departments |-> {}, faculty |-> {}, students |-> {},
     courses |-> {}, seq |-> [t \in Tables |-> 0]]

(* A request body field that is absent reads as undefined in the handler.  *)
Has(body, f) == f \in DOMAIN body

(* A bound parameter: undefined is bound as NULL. *)
TextParam(body, f) == IF Has(body, f) THEN body[f] ELSE NULL_TEXT
IntParam(body, f) == IF Has(body, f) THEN body[f] ELSE NULL_ID

----------------------------------------------------------------------------
(* POST /api/students: the avatar derivation, line 110.                     *)
(* s[0] of a string is its first character, or undefined when s is empty;   *)
(* undefined || '' is ''.                                                   *)

FirstChar(s) == IF Len(s) > 0 THEN <<s[1]>> ELSE <<>>

initials(first_name, last_name) == FirstChar(first_name) \o FirstChar(last_name)

(* Indexing undefined throws a TypeError. *)
InitialsThrows(body) == ~Has(body, "first_name") \/ ~Has(body, "last_name")

(* POST /api/faculty: the avatar URL template, line 128. *)
TemplateText(body, f) == IF Has(body, f) THEN body[f] ELSE <<"undefined">>

avatar(body) ==
    <<"https://ui-avatars.com/api/?name=">> \o TemplateText(body, "first_name")
        \o <<"+">> \o TemplateText(body, "last_name") \o <<"&background=random">>

----------------------------------------------------------------------------
(* The SQL statements, each one atomic at the store.  A result is           *)
(* [store, err, value, rows, at]: the store afterwards, whether sqlite      *)
(* reported an error, the value handed to the callback (this.lastID or      *)
(* row.count) or the rows handed to it, and (history) what the store held   *)
(* when the statement ran.                                                  *)

NoSnapshot ==
    [students |-> {}, noDepartment |-> {}, faculty |-> 0, active |-> 0, dup |-> FALSE]
Ok(st, v) == [store |-> st, err |-> FALSE, value |-> v, rows |-> <<>>, at |-> NoSnapshot]
Err(st) == [store |-> st, err |-> TRUE, value |-> 0, rows |-> <<>>, at |-> NoSnapshot]

(* CREATE TABLE IF NOT EXISTS, lines 32-81: rows of an existing table stay. *)
CreateTable(st, t) == Ok([st EXCEPT !.schema = @ \cup {t}], 0)

(* INTEGER PRIMARY KEY AUTOINCREMENT: one more than the largest id ever     *)
(* used in the table (sqlite_sequence).                                     *)
NextId(st, t) == st.seq[t] + 1

SeedDepartmentNames ==
    <<"Computer Science", "Architecture", "Engineering", "Business">>

(* Line 87: one INSERT of four rows. *)
SeedDepartments(st) ==
    LET n == st.seq["departments"]
        k == Len(SeedDepartmentNames)
    IN  Ok([st EXCEPT
              !.departments = @ \cup
                  {[id |-> n + j, name |-> SeedDepartmentNames[j]] : j \in 1..k},
              !.seq["departments"] = n + k], n + k)

SeedFacultyNames == << <<"Alan", "Turing">>, <<"Grace", "Hopper">> >>

(* Lines 89-91: one INSERT of two rows; email is left NULL. *)
SeedFaculty(st) ==
    LET n == st.seq["faculty"]
        k == Len(SeedFacultyNames)
    IN  Ok([st EXCEPT
              !.faculty = @ \cup
                  {[id |-> n + j,
                    first_name |-> <<SeedFacultyNames[j][1]>>,
                    last_name |-> <<SeedFacultyNames[j][2]>>,
                    email |-> NULL_TEXT,
                    department_id |-> 1,
                    avatar_url |-> <<"https://ui-avatars.com/api/?name=Prof+",
                                     IF j = 1 THEN "A" ELSE "G",
                                     "&background=random">>] : j \in 1..k},
              !.seq["faculty"] = n + k], n + k)

(* INSERT INTO faculty, line 130: first_name and last_name are NOT NULL. *)
InsertFaculty(st, p) ==
    IF p.first_name = NULL_TEXT \/ p.last_name = NULL_TEXT
    THEN Err(st)
    ELSE LET id == NextId(st, "faculty")
         IN  Ok([st EXCEPT !.faculty = @ \cup {[id |-> id] @@ p},
                           !.seq["faculty"] = id], id)

(* A student insert that violates UNIQUE(student_id) or a NOT NULL column   *)
(* fails and leaves the table as it was, lines 49-61.                       *)
StudentConstraintFails(st, p) ==
    \/ p.student_id = NULL_TEXT
    \/ p.first_name = NULL_TEXT
    \/ p.last_name = NULL_TEXT
    \/ \E s \in st.students : s.student_id = p.student_id
    \/ p.status \notin {"Admitted", "Pending", "Waitlist"}

(* Variant: the INSERT with the UNIQUE(student_id) constraint left out. *)
InsertStudentNoUnique(st, p) ==
    IF p.student_id = NULL_TEXT \/ p.first_name = NULL_TEXT \/ p.last_name = NULL_TEXT
    THEN Err(st)
    ELSE LET id == NextId(st, "students")
         IN  Ok([st EXCEPT !.students = @ \cup {[id |-> id] @@ p},
                           !.seq["students"] = id], id)

InsertStudent(st, p) ==
    IF StudentConstraintFails(st, p)
    THEN Err(st)
    ELSE LET id == NextId(st, "students")
         IN  Ok([st EXCEPT !.students = @ \cup {[id |-> id] @@ p},
                           !.seq["students"] = id], id)

SeedStudentId == <<"#ST-2024-001">>

(* Lines 93-94. *)
SeedStudent(st) ==
    InsertStudent(st,
        [student_id |-> SeedStudentId,
         first_name |-> <<"J", "o", "h", "n">>, last_name |-> <<"D", "o", "e">>,
         email |-> NULL_TEXT, department_id |-> 1, status |-> "Admitted",
         class_year |-> 2026, avatar_initials |-> <<"J", "D">>,
         avatar_color |-> "blue"])

(* Line 96: course_code is UNIQUE, isActive defaults to 1. *)
SeedCourse(st) ==
    IF \E c \in st.courses : c.course_code = <<"CS-101">>
    THEN Err(st)
    ELSE LET id == NextId(st, "courses")
         IN  Ok([st EXCEPT
                   !.courses = @ \cup
                       {[id |-> id, course_code |-> <<"CS-101">>,
                         name |-> <<"Data Structures">>, department_id |-> 1,
                         isActive |-> 1]},
                   !.seq["courses"] = id], id)

(* The three counting queries of GET /api/stats, lines 140-142, in the      *)
(* order of the array given to Promise.all.                                 *)
StatsTables == <<"students", "courses", "faculty">>

CountQuery(st, k) ==
    Ok(st, CASE k = 1 -> Cardinality(st.students)
             [] k = 2 -> Cardinality({c \in st.courses : c.isActive = 1})  \* WHERE isActive = 1
             [] k = 3 -> Cardinality(st.faculty))

(* Line 84. *)
CountDepartments(st) == Ok(st, Cardinality(st.departments))

(* Variant: JOIN in place of LEFT JOIN. *)
InnerJoin(st, s) ==
    {[department_name |-> <<d.name>>] @@ s :
        d \in {e \in st.departments :
                  s.department_id # NULL_ID /\ s.department_id = e.id}}

(* GET /api/enrollments/recent, line 151.                                   *)
(* LEFT JOIN departments d ON s.department_id = d.id: one joined row per    *)
(* matching department, and one row with a NULL department_name when none   *)
(* matches (NULL matches nothing).                                          *)
LeftJoin(st, s) ==
    LET ds == {d \in st.departments :
                  s.department_id # NULL_ID /\ s.department_id = d.id}
    IN  IF ds = {}
        THEN {[department_name |-> NULL_TEXT] @@ s}
        ELSE {[department_name |-> <<d.name>>] @@ s : d \in ds}

(* Variant: ORDER BY s.id ASC LIMIT n *)
RECURSIVE OrderByIdAscLimit(_, _)
OrderByIdAscLimit(rows, n) ==
    IF n = 0 \/ rows = {}
    THEN <<>>
    ELSE LET m == CHOOSE r \in rows : \A q \in rows : q.id >= r.id
         IN  <<m>> \o OrderByIdAscLimit(rows \ {m}, n - 1)

(* ORDER BY s.id DESC LIMIT n *)
RECURSIVE OrderByIdDescLimit(_, _)
OrderByIdDescLimit(rows, n) ==
    IF n = 0 \/ rows = {}
    THEN <<>>
    ELSE LET m == CHOOSE r \in rows : \A q \in rows : q.id <= r.id
         IN  <<m>> \o OrderByIdDescLimit(rows \ {m}, n - 1)

SelectRecent(st) ==
    [Ok(st, 0) EXCEPT
        !.rows = OrderByIdDescLimit(UNION {LeftJoin(st, s) : s \in st.students}, LIMIT)]

ActiveCourses(st) == {c \in st.courses : c.isActive = 1}

(* History: what the store holds, as far as the read endpoints show it. *)
Snapshot(st) ==
    [students |-> {s.id : s \in st.students},
     noDepartment |-> {s.id : s \in {t \in st.students :
                          \A d \in st.departments : d.id # t.department_id}},
     faculty |-> Cardinality(st.faculty),
     active |-> Cardinality(ActiveCourses(st)),
     dup |-> FALSE]

TotalRows(st) ==
    Cardinality(st.departments) + Cardinality(st.faculty)
        + Cardinality(st.students) + Cardinality(st.courses)

----------------------------------------------------------------------------
(* The sqlite3 connection `db` of one server process, line 19.              *)
(*   phase     "down": no process; "opening": the process runs and the      *)
(*             database is being opened; "open": the open callback has run  *)
(*   queue     statements the driver holds back, each with the exclusive    *)
(*             flag it got from serialize mode                              *)
(*   inflight  statements on the thread pool, in phase "prepare" or "run"   *)
(*   locked    an exclusive statement is in flight                          *)
(*   runs      process starts so far                                        *)
(*   startDepartments, seeded   history: the departments in the store when  *)
(*             the process started, and the rows its seed loader inserted   *)

Servers == {1, 2}

Closed(c) ==
    [phase |-> "down", queue |-> <<>>, inflight |-> {}, locked |-> FALSE,
     runs |-> c.runs, startDepartments |-> 0, seeded |-> 0]

Stmt(kind, arg, req) == [kind |-> kind, arg |-> arg, req |-> req]

Result(r, at) == [err |-> r.err, value |-> r.value, rows |-> r.rows, at |-> at]
NoResult == Result(Ok(EmptyStore, 0), NoSnapshot)
InFlight(s) == [stmt |-> s, ph |-> "prepare", res |-> NoResult]

(* db.run / db.get / db.all: the statement starts at once, or is queued     *)
(* while the database is not open, or while statements are in flight and    *)
(* either serialize mode is on or an exclusive statement is in flight.      *)
Schedule(c, s, serialize) ==
    IF c.phase # "open" \/ ((c.locked \/ serialize) /\ c.inflight # {})
    THEN [c EXCEPT !.queue = Append(@, [stmt |-> s, exclusive |-> serialize])]
    ELSE [c EXCEPT !.locked = FALSE,
                   !.inflight = @ \cup {InFlight(s)}]

RECURSIVE ScheduleAll(_, _, _)
ScheduleAll(c, ss, serialize) ==
    IF ss = <<>> THEN c
    ELSE ScheduleAll(Schedule(c, Head(ss), serialize), Tail(ss), serialize)

(* The driver starts queued statements: all of them up to the first         *)
(* exclusive one, which waits until nothing is in flight and then runs      *)
(* alone.                                                                   *)
RECURSIVE Process(_)
Process(c) ==
    IF c.phase = "open" /\ (~c.locked \/ c.inflight = {}) /\ c.queue # <<>>
    THEN LET h == Head(c.queue)
         IN  IF h.exclusive /\ c.inflight # {}
             THEN c
             ELSE Process([c EXCEPT
                             !.queue = Tail(@),
                             !.locked = h.exclusive,
                             !.inflight = @ \cup {InFlight(h.stmt)}])
    ELSE c

(* The statements of initializeDatabase, lines 30-99, in program order:     *)
(* five CREATE TABLE and the department count, all issued inside            *)
(* db.serialize.                                                            *)
SchemaStatements ==
    <<Stmt("create", "departments", 0), Stmt("create", "faculty", 0),
      Stmt("create", "students", 0), Stmt("create", "courses", 0),
      Stmt("create", "schedule", 0)>>

initializeDatabase(c) ==
    ScheduleAll(c, SchemaStatements \o <<Stmt("count_departments", "departments", 0)>>,
                TRUE)

(* The callback of the department count, lines 84-99: it runs after         *)
(* db.serialize has returned, so its four inserts are issued in the         *)
(* driver's default (parallel) mode.                                        *)
SeedStatements ==
    <<Stmt("seed", "departments", 0), Stmt("seed", "faculty", 0),
      Stmt("seed", "students", 0), Stmt("seed", "courses", 0)>>

(* Variant: the seed block without its row.count === 0 test. *)
ShouldSeedAlways(r) == ~r.err

ShouldSeed(r) == ~r.err /\ r.value = 0

SeedCallback(c, r) ==
    IF ShouldSeed(r) THEN ScheduleAll(c, SeedStatements, FALSE) ELSE c

(* The tables a statement names: preparing it fails when one is missing. *)
Needs(s) ==
    CASE s.kind = "create" -> {}
      [] s.kind = "recent" -> {"students", "departments"}
      [] OTHER -> {s.arg}

(* All five CREATE TABLE statements of this process have completed. *)
SchemaCreated(c) ==
    /\ c.phase = "open"
    /\ \A k \in 1..Len(c.queue) : c.queue[k].stmt.kind # "create"
    /\ \A f \in c.inflight : f.stmt.kind # "create"

----------------------------------------------------------------------------
(* Requests and responses.                                                  *)
(* reqs[r] is a request whose statements are not all finished:              *)
(*   kind, inst   the endpoint and the server process that received it      *)
(*   params       the parameters bound to its INSERT                        *)
(*   p            the three promises of GET /api/stats                      *)
(*   all          the state of Promise.all([p1, p2, p3])                    *)
(*   sends        responses sent for it                                     *)
(*   left         statements of it the driver has not finished              *)
(*   rows0        history: the rows in the store when it arrived            *)
(* sent is the response written by the last step, if it wrote one, with     *)
(* (history) `at`: what the store held when the statement answered by it    *)
(* ran (for GET /api/stats: when the response was assembled), `dup`: that   *)
(* store held a student with the request's student_id, `quiet`: no row was  *)
(* inserted between the request's arrival and its response, and `settled`:  *)
(* the states of the three promises when a GET /api/stats was answered.     *)

NoParams == [none |-> TRUE]
Pending == [state |-> "pending", value |-> 0]
NoPromises == <<>>

NoResponse ==
    [kind |-> "none", status |-> 0, body |-> [none |-> TRUE],
     dup |-> FALSE, at |-> NoSnapshot, quiet |-> FALSE, settled |-> <<>>]

Response(kind, status, body, dup, at, quiet) ==
    [kind |-> kind, status |-> status, body |-> body,
     dup |-> dup, at |-> at, quiet |-> quiet, settled |-> <<>>]

FreshReq == CHOOSE r \in 1..(Cardinality(DOMAIN reqs) + 1) : r \notin DOMAIN reqs

Without(f, r) == [x \in DOMAIN f \ {r} |-> f[x]]

Request(kind, i, params, p, left) ==
    [kind |-> kind, inst |-> i, params |-> params, p |-> p, all |-> "pending",
     sends |-> 0, left |-> left, rows0 |-> TotalRows(store)]

Running(i) == conn[i].phase \in {"opening", "open"}

(* Variant: fulfilled as soon as one promise is fulfilled. *)
PromiseAny(p) ==
    IF \E k \in 1..Len(p) : p[k].state = "rejected" THEN "rejected"
    ELSE IF \E k \in 1..Len(p) : p[k].state = "fulfilled" THEN "fulfilled"
    ELSE "pending"

(* Promise.all, line 144: rejected as soon as one promise is rejected,      *)
(* fulfilled once all are fulfilled.                                        *)
PromiseAll(p) ==
    IF \E k \in 1..Len(p) : p[k].state = "rejected" THEN "rejected"
    ELSE IF \A k \in 1..Len(p) : p[k].state = "fulfilled" THEN "fulfilled"
    ELSE "pending"

States(p) == [k \in 1..Len(p) |-> p[k].state]

(* res.json drops the fields whose value is undefined. *)
Defined(p) == {k \in 1..Len(p) : p[k].state = "fulfilled"}

StatsFields == <<"total_students", "active_courses", "faculty_staff">>

(* Variant: faculty_staff and total_students taken from each other's query. *)
StatsJsonSwapped(results) ==
    [f \in {StatsFields[k] : k \in Defined(results)} \cup {"fee_collection"} |->
        CASE f = "total_students" -> results[3].value
          [] f = "active_courses" -> results[2].value
          [] f = "faculty_staff" -> results[1].value
          [] OTHER -> "$2.4M"]

(* Line 145: results[0], results[1], results[2] and the literal. *)
StatsJson(results) ==
    [f \in {StatsFields[k] : k \in Defined(results)} \cup {"fee_collection"} |->
        CASE f = "total_students" -> results[1].value
          [] f = "active_courses" -> results[2].value
          [] f = "faculty_staff" -> results[3].value
          [] OTHER -> "$2.4M"]

ErrorJson == [error |-> "err.message"]

----------------------------------------------------------------------------
(* Actions *)

(* node server.js: the script runs to its end; the database open is on the  *)
(* thread pool and app.listen has been called, lines 19 and 168.            *)
Start(i) ==
    /\ conn[i].phase = "down"
    /\ conn[i].runs < MaxRuns
    /\ conn' = [conn EXCEPT ![i] =
                   [@ EXCEPT !.phase = "opening", !.runs = @ + 1,
                             !.startDepartments = Cardinality(store.departments)]]
    /\ sent' = NoResponse
    /\ UNCHANGED <<store, reqs, faults, nreq>>

(* The open callback, lines 19-26: initializeDatabase, then the driver      *)
(* starts what was queued while the database was opening.                   *)
OpenDone(i) ==
    /\ conn[i].phase = "opening"
    /\ conn' = [conn EXCEPT ![i] =
                   Process(initializeDatabase([@ EXCEPT !.phase = "open"]))]
    /\ sent' = NoResponse
    /\ UNCHANGED <<store, reqs, faults, nreq>>

(* The process is stopped; its unanswered requests are dropped. *)
Stop(i) ==
    /\ conn[i].phase = "open"
    /\ conn[i].runs < MaxRuns
    /\ conn' = [conn EXCEPT ![i] = Closed(@)]
    /\ reqs' = [r \in {x \in DOMAIN reqs : reqs[x].inst # i} |-> reqs[r]]
    /\ sent' = NoResponse
    /\ UNCHANGED <<store, faults, nreq>>

(* POST /api/students, lines 106-123.  `color` is the outcome of            *)
(* Math.random.                                                             *)
PostStudent(i, body, color) ==
    /\ Running(i)
    /\ IF InitialsThrows(body)
       THEN /\ sent' = Response("student", 500, [html |-> "TypeError"], FALSE,
                                Snapshot(store), TRUE)
            /\ UNCHANGED <<conn, reqs>>
       ELSE LET r == FreshReq
                params ==
                    [student_id |-> TextParam(body, "student_id"),
                     first_name |-> body.first_name,
                     last_name |-> body.last_name,
                     email |-> TextParam(body, "email"),
                     department_id |-> IntParam(body, "department_id"),
                     status |-> "Pending",
                     class_year |-> IntParam(body, "class_year"),
                     avatar_initials |-> initials(body.first_name, body.last_name),
                     avatar_color |-> color]
            IN  /\ reqs' = (r :> Request("student", i, params, NoPromises, 1)) @@ reqs
                /\ conn' = [conn EXCEPT ![i] =
                               Schedule(@, Stmt("insert_student", "students", r), FALSE)]
                /\ sent' = NoResponse
    /\ UNCHANGED <<store, faults>>

(* POST /api/faculty, lines 126-136. *)
PostFaculty(i, body) ==
    /\ Running(i)
    /\ LET r == FreshReq
           params ==
               [first_name |-> TextParam(body, "first_name"),
                last_name |-> TextParam(body, "last_name"),
                email |-> TextParam(body, "email"),
                department_id |-> IntParam(body, "department_id"),
                avatar_url |-> avatar(body)]
       IN  /\ reqs' = (r :> Request("faculty", i, params, NoPromises, 1)) @@ reqs
           /\ conn' = [conn EXCEPT ![i] =
                          Schedule(@, Stmt("insert_faculty", "faculty", r), FALSE)]
    /\ sent' = NoResponse
    /\ UNCHANGED <<store, faults>>

(* GET /api/stats, lines 139-147: the three queries are issued at once. *)
GetStats(i) ==
    /\ Running(i)
    /\ LET r == FreshReq
       IN  /\ reqs' = (r :> Request("stats", i, NoParams,
                                    <<Pending, Pending, Pending>>, 3)) @@ reqs
           /\ conn' = [conn EXCEPT ![i] =
                          ScheduleAll(@, [k \in 1..3 |-> Stmt("count", StatsTables[k], r)],
                                      FALSE)]
    /\ sent' = NoResponse
    /\ UNCHANGED <<store, faults>>

(* GET /api/enrollments/recent, lines 150-156. *)
GetRecent(i) ==
    /\ Running(i)
    /\ LET r == FreshReq
       IN  /\ reqs' = (r :> Request("recent", i, NoParams, NoPromises, 1)) @@ reqs
           /\ conn' = [conn EXCEPT ![i] =
                          Schedule(@, Stmt("recent", "students", r), FALSE)]
    /\ sent' = NoResponse
    /\ UNCHANGED <<store, faults>>

(* The SQL of a statement, run against the store. *)
Slot(s) == CHOOSE k \in 1..Len(StatsTables) : StatsTables[k] = s.arg

Run(st, s) ==
    CASE s.kind = "create" -> CreateTable(st, s.arg)
      [] s.kind = "count_departments" -> CountDepartments(st)
      [] s.kind = "seed" /\ s.arg = "departments" -> SeedDepartments(st)
      [] s.kind = "seed" /\ s.arg = "faculty" -> SeedFaculty(st)
      [] s.kind = "seed" /\ s.arg = "students" -> SeedStudent(st)
      [] s.kind = "seed" /\ s.arg = "courses" -> SeedCourse(st)
      [] s.kind = "insert_student" -> InsertStudent(st, reqs[s.req].params)
      [] s.kind = "insert_faculty" -> InsertFaculty(st, reqs[s.req].params)
      [] s.kind = "count" -> CountQuery(st, Slot(s))
      [] s.kind = "recent" -> SelectRecent(st)

(* What the statement's callback gets: statements issued without a         *)
(* callback (CREATE TABLE, the seed inserts) deliver nothing but complete.  *)
Delivered(s, r, at) ==
    IF s.kind \in {"create", "seed"} THEN [NoResult EXCEPT !.err = r.err]
    ELSE IF s.kind \in {"count_departments", "count"} THEN Result(r, NoSnapshot)
    ELSE Result(r, at)

Duplicate(st, s) ==
    /\ s.kind = "insert_student"
    /\ \E t \in st.students : t.student_id = reqs[s.req].params.student_id

(* The callbacks of the request handlers: lines 119-122, 132-135, 140-146   *)
(* and 152-155.                                                             *)
Reply(s, res) ==
    LET r == reqs[s.req]
        quiet == TotalRows(store) = r.rows0
    IN  CASE s.kind = "insert_student" ->
               /\ reqs' = Without(reqs, s.req)
               /\ sent' = IF res.err
                          THEN Response("student", 500, ErrorJson, res.at.dup, res.at, quiet)
                          ELSE Response("student", 200,
                                        [message |-> "Student saved successfully!",
                                         id |-> res.value], res.at.dup, res.at, quiet)
          [] s.kind = "insert_faculty" ->
               /\ reqs' = Without(reqs, s.req)
               /\ sent' = IF res.err
                          THEN Response("faculty", 500, ErrorJson, FALSE, res.at, quiet)
                          ELSE Response("faculty", 200,
                                        [message |-> "Faculty saved successfully!",
                                         id |-> res.value], FALSE, res.at, quiet)
          [] s.kind = "recent" ->
               /\ reqs' = Without(reqs, s.req)
               /\ sent' = IF res.err
                          THEN Response("recent", 500, ErrorJson, FALSE, res.at, quiet)
                          ELSE Response("recent", 200, [data |-> res.rows], FALSE,
                                        res.at, quiet)
          [] s.kind = "count" ->
               LET p2 == [r.p EXCEPT ![Slot(s)] =
                             IF res.err THEN [state |-> "rejected", value |-> 0]
                             ELSE [state |-> "fulfilled", value |-> res.value]]
                   all2 == IF r.all = "pending" THEN PromiseAll(p2) ELSE r.all
                   send == r.all = "pending" /\ all2 # "pending"
                   r2 == [r EXCEPT !.p = p2, !.all = all2, !.left = @ - 1,
                                   !.sends = IF send THEN @ + 1 ELSE @]
               IN  /\ reqs' = IF r2.left = 0 THEN Without(reqs, s.req)
                              ELSE [reqs EXCEPT ![s.req] = r2]
                   /\ sent' = IF ~send THEN NoResponse
                              ELSE IF all2 = "rejected"
                              THEN [Response("stats", 500, ErrorJson, FALSE,
                                             Snapshot(store), quiet)
                                       EXCEPT !.settled = States(p2)]
                              ELSE [Response("stats", 200, StatsJson(p2), FALSE,
                                             Snapshot(store), quiet)
                                       EXCEPT !.settled = States(p2)]

(* The driver's completion of statement f with result res, on the main      *)
(* thread: the statement's callback runs while the statement still counts   *)
(* as in flight, then the driver starts what it may from the queue.         *)
After(i, f, res) ==
    LET s == f.stmt
        c1 == IF s.kind = "count_departments" THEN SeedCallback(conn[i], res)
              ELSE conn[i]
    IN  /\ conn' = [conn EXCEPT ![i] = Process([c1 EXCEPT !.inflight = @ \ {f}])]
        /\ IF s.req = 0 THEN sent' = NoResponse /\ UNCHANGED reqs ELSE Reply(s, res)

(* sqlite3_prepare: it fails when the statement names a table that does     *)
(* not exist, and the statement's callback gets the error; otherwise the    *)
(* statement goes on to run.                                                *)
Prepared(i, f) ==
    /\ f \in conn[i].inflight
    /\ f.ph = "prepare"
    /\ IF Needs(f.stmt) \subseteq store.schema
       THEN /\ conn' = [conn EXCEPT ![i] =
                           Process([@ EXCEPT !.inflight =
                                       (@ \ {f}) \cup {[f EXCEPT !.ph = "run"]}])]
            /\ sent' = NoResponse
            /\ UNCHANGED reqs
       ELSE After(i, f, Result(Err(store), Snapshot(store)))
    /\ UNCHANGED <<store, faults, nreq>>

(* sqlite3_step on the thread pool: the statement takes effect on the       *)
(* store.  `fail` is a storage failure of a request's statement.            *)
Executed(i, f, fail) ==
    /\ f \in conn[i].inflight
    /\ f.ph = "run"
    /\ fail => faults < MaxFaults /\ f.stmt.req # 0
    /\ LET r == IF fail THEN Err(store) ELSE Run(store, f.stmt)
           at == [Snapshot(store) EXCEPT !.dup = Duplicate(store, f.stmt)]
           n == TotalRows(r.store) - TotalRows(store)
       IN  /\ store' = r.store
           /\ conn' = [conn EXCEPT ![i] =
                          [@ EXCEPT !.inflight =
                                       (@ \ {f}) \cup
                                           {[f EXCEPT !.ph = "done",
                                                      !.res = Delivered(f.stmt, r, at)]},
                                    !.seeded = IF f.stmt.kind = "seed" THEN @ + n ELSE @]]
    /\ faults' = IF fail THEN faults + 1 ELSE faults
    /\ sent' = NoResponse
    /\ UNCHANGED <<reqs, nreq>>

(* The statement's completion reaches the main thread. *)
Completed(i, f) ==
    /\ f \in conn[i].inflight
    /\ f.ph = "done"
    /\ After(i, f, f.res)
    /\ UNCHANGED <<store, faults, nreq>>

----------------------------------------------------------------------------
(* The clients.  A sequential client sends a request when none is being     *)
(* handled.  Room(t, cap) keeps table t below cap rows.                     *)

Sequential == DOMAIN reqs = {}

Outstanding(kind) == Cardinality({r \in DOMAIN reqs : reqs[r].kind = kind})

Room(t, cap) ==
    Cardinality(store[t]) + Outstanding(IF t = "students" THEN "student" ELSE "faculty")
        < cap

(* A student_id is an opaque text that the code only compares: the n-th     *)
(* unused one.                                                              *)
Digits == <<"0", "1", "2", "3", "4", "5", "6", "7", "8", "9">>

StudentIdNo(n) == <<"#ST-", Digits[(n \div 10) + 1], Digits[(n % 10) + 1]>>

StudentBodies ==
    {[student_id |-> SeedStudentId, first_name |-> <<"A", "n", "n">>,
      last_name |-> <<>>, department_id |-> 1, class_year |-> 2027],
     [student_id |-> <<"#ST-2">>, first_name |-> <<"B", "o">>,
      last_name |-> <<"L", "i">>, email |-> <<"bo@example.org">>],
     [student_id |-> <<"#ST-3">>, first_name |-> <<>>,
      last_name |-> <<"C", "y">>, department_id |-> 9],
     [student_id |-> <<"#ST-3">>, last_name |-> <<"L", "i">>],
     [first_name |-> <<"D", "i">>, last_name |-> <<"X", "u">>]}

FacultyBodies ==
    {[first_name |-> <<"A", "d", "a">>, last_name |-> <<"K", "i", "n", "g">>,
      department_id |-> 1],
     [last_name |-> <<"K", "i", "n", "g">>]}

Palette == {colors[k] : k \in 1..Len(colors)}

Driver(i, failures) ==
    \/ \E f \in conn[i].inflight : Prepared(i, f)
    \/ \E f \in conn[i].inflight, fail \in failures : Executed(i, f, fail)
    \/ \E f \in conn[i].inflight : Completed(i, f)

(* A client request counted against a budget of `cap` requests, or not     *)
(* counted.                                                                 *)
Counted(cap) == nreq < cap /\ nreq' = nreq + 1
Uncounted == UNCHANGED nreq

ClientPostStudent(i, ready, tally, cap, students, palette) ==
    /\ ready
    /\ tally
    /\ Room("students", cap)
    /\ \E body \in students, color \in palette : PostStudent(i, body, color)

ClientPostFaculty(i, ready, tally, cap, faculty) ==
    /\ ready
    /\ tally
    /\ Room("faculty", cap)
    /\ \E body \in faculty : PostFaculty(i, body)

ClientGetStats(i, ready, tally) == ready /\ tally /\ GetStats(i)

ClientGetRecent(i, ready, tally) == ready /\ tally /\ GetRecent(i)

----------------------------------------------------------------------------
(* Spec: one server process started once on a fresh database file, and a    *)
(* sequential client that sends up to MaxReq requests while the server      *)
(* starts up and afterwards.                                                *)

StartupStudents ==
    {[student_id |-> SeedStudentId, first_name |-> <<"A", "n", "n">>,
      last_name |-> <<>>, department_id |-> 1, class_year |-> 2027]}

StartupFaculty ==
    {[first_name |-> <<"A", "d", "a">>, last_name |-> <<"K", "i", "n", "g">>,
      department_id |-> 1]}

Init ==
    /\ store = EmptyStore
    /\ conn = [i \in Servers |-> Closed([runs |-> 0])]
    /\ reqs = << >>
    /\ sent = NoResponse
    /\ faults = 0
    /\ nreq = 0

Next ==
    \/ Start(1)
    \/ OpenDone(1)
    \/ Driver(1, {FALSE})
    \/ ClientPostStudent(1, Sequential, Counted(MaxReq), MaxRows, StartupStudents,
                         {colors[1]})
    \/ ClientPostFaculty(1, Sequential, Counted(MaxReq), MaxRows, StartupFaculty)
    \/ ClientGetRecent(1, Sequential, Counted(MaxReq))

Spec == Init /\ [][Next]_vars

----------------------------------------------------------------------------
(* SpecRestart: one server process on a fresh database file, stopped at any *)
(* moment and started again, up to MaxRuns starts; between the runs and     *)
(* during them a client creates rows through the API.                       *)

NextRestart ==
    \/ Start(1)
    \/ OpenDone(1)
    \/ Stop(1)
    \/ Driver(1, {FALSE})
    \/ ClientPostStudent(1, Sequential, Counted(MaxCreations), MaxRows,
                         StartupStudents, {colors[1]})
    \/ ClientPostFaculty(1, Sequential, Counted(MaxCreations), MaxRows, StartupFaculty)

SpecRestart == Init /\ [][NextRestart]_vars

----------------------------------------------------------------------------
(* SpecMulti: two server processes started on the same fresh database file. *)

NextMulti == \E i \in Servers : Start(i) \/ OpenDone(i) \/ Driver(i, {FALSE})

SpecMulti == Init /\ [][NextMulti]_vars

----------------------------------------------------------------------------
(* SpecServe: one server process that has completed its first startup on a  *)
(* fresh file, serving a sequential client; statements of requests may fail *)
(* with a storage error.                                                    *)

SeededStore ==
    SeedCourse(SeedStudent(SeedFaculty(SeedDepartments(
        [EmptyStore EXCEPT !.schema = Tables]).store).store).store).store

Serving ==
    [phase |-> "open", queue |-> <<>>, inflight |-> {}, locked |-> FALSE,
     runs |-> 1, startDepartments |-> 0, seeded |-> TotalRows(SeededStore)]

InitServe ==
    /\ store = SeededStore
    /\ conn = [i \in Servers |-> IF i = 1 THEN Serving ELSE Closed([runs |-> 0])]
    /\ reqs = << >>
    /\ sent = NoResponse
    /\ faults = 0
    /\ nreq = 0

NextServe ==
    \/ Driver(1, BOOLEAN)
    \/ ClientPostStudent(1, Sequential, Uncounted, MaxRows, StudentBodies, Palette)
    \/ ClientPostFaculty(1, Sequential, Uncounted, MaxRows, FacultyBodies)
    \/ ClientGetStats(1, Sequential, Uncounted)
    \/ ClientGetRecent(1, Sequential, Uncounted)

SpecServe == InitServe /\ [][NextServe]_vars

----------------------------------------------------------------------------
(* SpecStats: the same server with two sequential clients that work at the  *)
(* same time: one creates students and faculty, the other reads the stats.  *)

Writing == Outstanding("student") + Outstanding("faculty") > 0
Reading == Outstanding("stats") > 0

WriterStudents ==
    {[student_id |-> StudentIdNo(Cardinality(store.students)),
      first_name |-> <<"B", "o">>, last_name |-> <<"L", "i">>,
      email |-> <<"bo@example.org">>]}

NextStats ==
    \/ Driver(1, BOOLEAN)
    \/ ClientPostStudent(1, ~Writing, Uncounted, MaxRows, WriterStudents, {colors[1]})
    \/ ClientPostFaculty(1, ~Writing, Uncounted, MaxRows, StartupFaculty)
    \/ ClientGetStats(1, ~Reading, Uncounted)

SpecStats == InitServe /\ [][NextStats]_vars

----------------------------------------------------------------------------
(* SpecRecent: the same server with a sequential client that creates        *)
(* students until the table holds MaxStudents rows and reads the recent     *)
(* enrollments in between.  For the student_id the client picks the seeded  *)
(* one (a duplicate) or the next unused one.                                *)

RecentBodies ==
    LET ids == {SeedStudentId, StudentIdNo(Cardinality(store.students))}
        named(id) == [student_id |-> id, first_name |-> <<"E", "d">>,
                      last_name |-> <<"O", "h">>]
    IN  {named(id) : id \in ids}
            \cup {[department_id |-> d] @@ named(id) : id \in ids, d \in {1, 9}}

NextRecent ==
    \/ Driver(1, {FALSE})
    \/ ClientPostStudent(1, Sequential, Uncounted, MaxStudents, RecentBodies,
                         {colors[1]})
    \/ ClientGetRecent(1, Sequential, Uncounted)

SpecRecent == InitServe /\ [][NextRecent]_vars

----------------------------------------------------------------------------
(* Claims *)

Min(a, b) == IF a < b THEN a ELSE b

Quiescent(i) ==
    conn[i].phase = "open" /\ conn[i].queue = <<>> /\ conn[i].inflight = {}

(* The statements sqlite finished running in this step. *)
JustRan(i) == {f \in conn'[i].inflight \ conn[i].inflight : f.ph = "done"}

(* C1: a POST /api/students whose student_id is already in the store fails  *)
(* with a 500 carrying an error field and no id, its INSERT leaves the      *)
(* students table as it was, no step removes or changes a student row, and  *)
(* no two student rows share a student_id.                                  *)
C1_Step ==
    /\ \A s \in store.students : s \in store'.students
    /\ \A a, b \in store'.students : a.student_id = b.student_id => a = b
    /\ \A f \in JustRan(1) :
          f.res.at.dup => f.res.err /\ store'.students = store.students
    /\ sent'.kind = "student" /\ sent'.dup =>
          /\ sent'.status = 500
          /\ "error" \in DOMAIN sent'.body
          /\ "id" \notin DOMAIN sent'.body

C2_Original ==
    sent.kind = "stats" /\ sent.status = 200 =>
        /\ sent.body.total_students = Cardinality(sent.at.students)
        /\ sent.body.faculty_staff = sent.at.faculty
        /\ sent.body.active_courses = sent.at.active

(* C2 as amended: each counter is the count its own query read, so it is    *)
(* never more than the count in the store when the response is assembled,   *)
(* and equals it when no row was inserted between the request's arrival and *)
(* the response.                                                            *)
C2_StatsCounts ==
    sent.kind = "stats" /\ sent.status = 200 =>
        /\ sent.body.total_students <= Cardinality(sent.at.students)
        /\ sent.body.faculty_staff <= sent.at.faculty
        /\ sent.body.active_courses <= sent.at.active
        /\ sent.quiet => C2_Original

C2_Witness ==
    /\ sent.kind = "stats" /\ sent.status = 200 /\ sent.quiet
    /\ sent.body.total_students = 2
    /\ sent.body.faculty_staff = 3
    /\ sent.body.active_courses = 1

(* C3: a GET /api/enrollments/recent returns min(5, number of students)     *)
(* rows, in strictly descending id order, and they are the students with    *)
(* the highest ids; every student row a step adds has an id greater than    *)
(* the ids of all rows already there.                                       *)
C3_Step ==
    /\ \A s \in store'.students \ store.students :
          \A t \in store.students : s.id > t.id
    /\ sent'.kind = "recent" /\ sent'.status = 200 =>
          LET data == sent'.body.data
              ids == sent'.at.students
              got == {data[k].id : k \in 1..Len(data)}
          IN  /\ Len(data) = Min(LIMIT, Cardinality(ids))
              /\ \A k \in 1..(Len(data) - 1) : data[k].id > data[k + 1].id
              /\ got \subseteq ids
              /\ \A x \in ids \ got : \A y \in got : x < y

C3_RecentEnrollments == [][C3_Step]_vars

C3_Witness ==
    /\ sent.kind = "recent" /\ sent.status = 200
    /\ Cardinality(sent.at.students) = MaxStudents
    /\ Len(sent.body.data) = LIMIT
    /\ sent.body.data[1].id = MaxStudents

(* C4: a startup that finds the departments table non-empty inserts no row. *)
C4_NoReseed ==
    \A i \in Servers : conn[i].startDepartments > 0 => conn[i].seeded = 0

C4_Witness ==
    /\ conn[1].runs = 2
    /\ conn[1].startDepartments > 0
    /\ Quiescent(1)
    /\ Cardinality(store.faculty) = 3

(* C5: every stored student has avatar_initials equal to the first          *)
(* character of first_name followed by the first character of last_name, a  *)
(* character being left out when its name is empty, and no POST             *)
(* /api/students fails before its INSERT is issued.                         *)
C5_InitialsNeverFail ==
    /\ \A s \in store.students :
          s.avatar_initials =
              (IF s.first_name = <<>> THEN <<>> ELSE <<s.first_name[1]>>)
                  \o (IF s.last_name = <<>> THEN <<>> ELSE <<s.last_name[1]>>)
    /\ sent.kind = "student" => "html" \notin DOMAIN sent.body

(* C6: a student among the five most recent whose department_id is NULL or  *)
(* matches no department is in the result of GET /api/enrollments/recent,   *)
(* with department_name NULL, and the number of rows returned is            *)
(* min(5, number of students) whatever the departments are.                 *)
C6_NoDepartmentKept ==
    sent.kind = "recent" /\ sent.status = 200 =>
        LET data == sent.body.data
            ids == sent.at.students
            recent(x) == Cardinality({y \in ids : y > x}) < LIMIT
        IN  /\ \A x \in sent.at.noDepartment :
                  recent(x) =>
                      \E k \in 1..Len(data) :
                          data[k].id = x /\ data[k].department_name = NULL_TEXT
            /\ Len(data) = Min(LIMIT, Cardinality(ids))

C6_Witness ==
    /\ sent.kind = "recent" /\ sent.status = 200
    /\ \E j, k \in 1..Len(sent.body.data) :
          /\ sent.body.data[j].department_id = NULL_ID
          /\ sent.body.data[j].department_name = NULL_TEXT
          /\ sent.body.data[k].department_id = 9
          /\ sent.body.data[k].department_name = NULL_TEXT
    /\ \E k \in 1..Len(sent.body.data) :
          sent.body.data[k].department_name = <<"Computer Science">>

(* C7: no statement of a request handler or of the seed loader is handed to *)
(* sqlite before the five CREATE TABLE statements of the process have       *)
(* completed.                                                               *)
C7_SchemaFirst ==
    \A i \in Servers : \A f \in conn[i].inflight :
        f.stmt.kind # "create" => SchemaCreated(conn[i])

(* C8: the seeded faculty, student and course rows are written only when    *)
(* the four department rows are in the store.                               *)
SeededDependents ==
    \/ store.courses # {}
    \/ \E f \in store.faculty : f.first_name = <<SeedFacultyNames[1][1]>>
    \/ \E s \in store.students : s.avatar_initials = <<"J", "D">>

C8_DepartmentsFirst ==
    SeededDependents => Cardinality(store.departments) >= Len(SeedDepartmentNames)

(* C9: once every started server process has finished its startup on a      *)
(* file that was empty, the departments table holds exactly four rows and   *)
(* the faculty table exactly two.                                           *)
C9_SeededOnce ==
    (\A i \in Servers : conn[i].phase # "down" => Quiescent(i))
        /\ (\E i \in Servers : conn[i].phase # "down") =>
            /\ Cardinality(store.departments) = Len(SeedDepartmentNames)
            /\ Cardinality(store.faculty) = Len(SeedFacultyNames)

(* C10: a GET /api/stats is answered exactly once, by the time its three    *)
(* count queries have completed: with a 500 carrying only an error field    *)
(* when a query has failed, and otherwise, once all three have succeeded,   *)
(* with the three counts and the fee_collection literal; never with some of *)
(* the counts.                                                              *)
C10_Step ==
    \A r \in DOMAIN reqs :
        reqs[r].kind = "stats" =>
            LET answered == IF sent'.kind = "stats" THEN 1 ELSE 0
            IN  /\ reqs[r].sends + answered <= 1
                /\ r \notin DOMAIN reqs' => reqs[r].sends + answered = 1
                /\ answered = 1 /\ sent'.status = 500 =>
                      /\ DOMAIN sent'.body = {"error"}
                      /\ \E k \in 1..3 : sent'.settled[k] = "rejected"
                /\ answered = 1 /\ sent'.status # 500 =>
                      /\ sent'.status = 200
                      /\ DOMAIN sent'.body =
                             {"total_students", "active_courses", "faculty_staff",
                              "fee_collection"}
                      /\ sent'.body.fee_collection = "$2.4M"
                      /\ \A k \in 1..3 : sent'.settled[k] = "fulfilled"

C10_StatsAllOrNothing == [][C10_Step]_vars

C10_Witness ==
    /\ sent.kind = "stats" /\ sent.status = 500
    /\ \E k, l \in 1..3 : sent.settled[k] = "fulfilled" /\ sent.settled[l] = "rejected"

====
